---- MODULE Spec2Model ----
(***************************************************************************)
(* Model of the retrieval-augmented Terraform generator:                   *)
(*   src/app/rag_engine.py            TerraformRAGEngine                   *)
(*   src/app/azure_terraform_agent.py AzureTerraformAgent and the chat UI  *)
(* Text is modelled as a sequence of one-character strings, so that the    *)
(* string operations of the code (strip, lower, split, startswith, `in`,   *)
(* slicing, replace) are computed as Python computes them.                 *)
(***************************************************************************)
EXTENDS Integers, Sequences, FiniteSets, TLC

VARIABLES
    messages,        \* st.session_state.messages, the conversation log
    pc,              \* position of generate_terraform for the current query
    prompt,          \* the query being processed
    reply,           \* the last language-model reply (local `result`)
    is_valid,        \* first component of _validate_query's return value
    reason,          \* second component of _validate_query's return value
    relevant_types,  \* return value of _get_relevant_templates
    context,         \* chunks the retriever handed to the document chain
    raised,          \* what generate_terraform returned or raised
    calls,           \* per-query number of invocations of each component
    served,          \* number of queries submitted in this session
    vector_store,    \* self.vector_store: the indexed chunks
    ipc,             \* position of the constructor
    entry,           \* who constructs the engine: the agent or a direct caller
    api_key,         \* whether OPENAI_API_KEY is set
    dir_exists,      \* whether the template directory exists
    files,           \* names of the files in the template directory
    net,             \* network calls issued during construction
    ierr             \* the exception the constructor raised, if any

vars == <<messages, pc, prompt, reply, is_valid, reason, relevant_types,
          context, raised, calls, served, vector_store,
          ipc, entry, api_key, dir_exists, files, net, ierr>>

pipeVars == <<messages, pc, prompt, reply, is_valid, reason, relevant_types,
              context, raised, calls, served>>

ctorVars == <<ipc, entry, api_key, dir_exists, files, net, ierr>>

(***************************************************************************)
(* Bounds of the model.                                                    *)
(***************************************************************************)
MaxLines == 2

MaxQueries == 2

(***************************************************************************)
(* Text literals.                                                          *)
(***************************************************************************)
P_valid == <<"v","a","l","i","d",":">>

P_reason == <<"r","e","a","s","o","n",":">>

S_true == <<"t","r","u","e">>

DefaultReason == <<"I","n","v","a","l","i","d"," ","q","u","e","r","y"," ","f","o","r","m","a","t">>

ErrPrefix == <<"E","r","r","o","r"," ","v","a","l","i","d","a","t","i","n","g"," ","q","u","e","r","y",":"," ">>

L_vm == <<"v","i","r","t","u","a","l","_","m","a","c","h","i","n","e">>

L_aks == <<"a","k","s">>

L_storage == <<"s","t","o","r","a","g","e">>

L_vnet == <<"v","n","e","t">>

L_lb == <<"l","b">>

L_foo == <<"f","o","o">>

TfExt == <<".","t","f">>

F_storage == <<"s","t","o","r","a","g","e",".","t","f">>

F_aks == <<"a","k","s",".","t","f">>

F_main == <<"m","a","i","n",".","t","f">>

F_notes == <<"n","o","t","e","s",".","t","x","t">>

Timeout == <<"t","i","m","e","o","u","t">>

Empty == << >>

P_Valid == <<"V","a","l","i","d",":">>

P_svalid == <<" ","v","a","l","i","d",":">>

P_note == <<"n","o","t","e",":">>

B_true == <<" ","t","r","u","e">>

B_false == <<" ","f","a","l","s","e">>

B_TRUE == <<" ","T","R","U","E">>

B_nope == <<" ","n","o","p","e"," ">>

B_ok == <<" ","o","k">>

C_storage_aks == <<"s","t","o","r","a","g","e",","," ","a","k","s">>

C_foo_storage == <<"f","o","o",",","s","t","o","r","a","g","e">>

C_main == <<" ","m","a","i","n"," ">>

Q_vm == <<"v","m">>

Q_pasta == <<"p","a","s","t","a">>

Answer == <<"t","f">>

(***************************************************************************)
(* Python string operations.                                               *)
(***************************************************************************)
Whitespace == {" ", "\n", "\t", "\r"}

UpperCase == <<"A","B","C","D","E","F","G","H","I","J","K","L","M",
               "N","O","P","Q","R","S","T","U","V","W","X","Y","Z">>

LowerCase == <<"a","b","c","d","e","f","g","h","i","j","k","l","m",
               "n","o","p","q","r","s","t","u","v","w","x","y","z">>

LowerChar(c) ==
    IF \E i \in 1..26 : UpperCase[i] = c
    THEN LowerCase[CHOOSE i \in 1..26 : UpperCase[i] = c]
    ELSE c

\* str.lower()
Lower(s) == [i \in 1..Len(s) |-> LowerChar(s[i])]

\* s[n:]
Drop(s, n) == IF n >= Len(s) THEN Empty ELSE SubSeq(s, n + 1, Len(s))

\* str.strip()
Strip(s) ==
    LET keep == {i \in 1..Len(s) : s[i] \notin Whitespace}
    IN  IF keep = {} THEN Empty
        ELSE LET lo == CHOOSE i \in keep : \A j \in keep : i <= j
                 hi == CHOOSE i \in keep : \A j \in keep : i >= j
             IN  SubSeq(s, lo, hi)

\* str.startswith(p)
StartsWith(s, p) == Len(s) >= Len(p) /\ SubSeq(s, 1, Len(p)) = p

\* str.endswith(p)
EndsWith(s, p) == Len(s) >= Len(p) /\ SubSeq(s, Len(s) - Len(p) + 1, Len(s)) = p

\* `sub in s`
Contains(s, sub) ==
    \E i \in 1..(Len(s) - Len(sub) + 1) : SubSeq(s, i, i + Len(sub) - 1) = sub

RECURSIVE Split(_, _)
\* str.split(sep) for a one-character separator
Split(s, sep) ==
    IF \E i \in 1..Len(s) : s[i] = sep
    THEN LET k == CHOOSE i \in 1..Len(s) : s[i] = sep /\ \A j \in 1..(i-1) : s[j] # sep
         IN  <<SubSeq(s, 1, k - 1)>> \o Split(Drop(s, k), sep)
    ELSE <<s>>

RECURSIVE Replace(_, _)
\* str.replace(old, '')
Replace(s, old) ==
    IF s = Empty THEN Empty
    ELSE IF StartsWith(s, old) THEN Replace(Drop(s, Len(old)), old)
    ELSE <<s[1]>> \o Replace(Drop(s, 1), old)

RECURSIVE Join(_, _)
\* sep.join(parts)
Join(parts, sep) ==
    IF parts = << >> THEN Empty
    ELSE IF Len(parts) = 1 THEN parts[1]
    ELSE parts[1] \o <<sep>> \o Join(Tail(parts), sep)

(***************************************************************************)
(* _validate_query: the parsing of the validator's reply.                  *)
(***************************************************************************)
RECURSIVE ParseLinesFirstWins(_, _, _)
\* variant: a later `valid:` / `reason:` line does not overwrite an earlier one
ParseLinesFirstWins(lines, i, acc) ==
    IF i > Len(lines) THEN acc
    ELSE LET line == lines[Len(lines) + 1 - i]
         IN  IF StartsWith(line, P_valid)
             THEN ParseLinesFirstWins(lines, i + 1,
                      [acc EXCEPT !.is_valid = Contains(Lower(line), S_true)])
             ELSE IF StartsWith(line, P_reason)
             THEN ParseLinesFirstWins(lines, i + 1,
                      [acc EXCEPT !.reason = Strip(Drop(line, 7))])
             ELSE ParseLinesFirstWins(lines, i + 1, acc)

RECURSIVE ParseLinesAnywhere(_, _, _)
\* variant: `'valid:' in line` instead of line.startswith('valid:')
ParseLinesAnywhere(lines, i, acc) ==
    IF i > Len(lines) THEN acc
    ELSE LET line == lines[i]
         IN  IF Contains(line, P_valid)
             THEN ParseLinesAnywhere(lines, i + 1,
                      [acc EXCEPT !.is_valid = Contains(Lower(line), S_true)])
             ELSE IF StartsWith(line, P_reason)
             THEN ParseLinesAnywhere(lines, i + 1,
                      [acc EXCEPT !.reason = Strip(Drop(line, 7))])
             ELSE ParseLinesAnywhere(lines, i + 1, acc)

RECURSIVE ParseLines(_, _, _)
\* the `for line in response_lines` loop; acc is (is_valid, reason)
ParseLines(lines, i, acc) ==
    IF i > Len(lines) THEN acc
    ELSE LET line == lines[i]
         IN  IF StartsWith(line, P_valid)
             THEN ParseLines(lines, i + 1,
                      [acc EXCEPT !.is_valid = Contains(Lower(line), S_true)])
             ELSE IF StartsWith(line, P_reason)
             THEN ParseLines(lines, i + 1,
                      [acc EXCEPT !.reason = Strip(Drop(line, 7))])
             ELSE ParseLines(lines, i + 1, acc)

\* result.content.strip().lower().split('\n')
ResponseLines(content) == Split(Lower(Strip(content)), "\n")

\* variant: a failed validation call lets the query through
ValidateQueryFailOpen(r) ==
    IF r.ok
    THEN ParseLines(ResponseLines(r.content), 1,
                    [is_valid |-> FALSE, reason |-> DefaultReason])
    ELSE [is_valid |-> TRUE, reason |-> ErrPrefix \o r.content]

\* the body of _validate_query for a model reply r: r.ok says whether
\* self.llm.invoke returned, r.content is the text (str(e) when it raised)
ValidateQuery(r) ==
    IF r.ok
    THEN ParseLines(ResponseLines(r.content), 1,
                    [is_valid |-> FALSE, reason |-> DefaultReason])
    ELSE [is_valid |-> FALSE, reason |-> ErrPrefix \o r.content]

(***************************************************************************)
(* _get_relevant_templates: the parsing of the classifier's reply.         *)
(***************************************************************************)
DefaultTypes == <<L_vm, L_storage>>

\* variant: the tokens are not trimmed
GetRelevantTemplatesNoStrip(r) ==
    IF ~r.ok THEN DefaultTypes
    ELSE IF r.content = Empty THEN DefaultTypes
    ELSE Split(r.content, ",")

GetRelevantTemplates(r) ==
    IF ~r.ok THEN DefaultTypes
    ELSE IF r.content = Empty THEN DefaultTypes
    ELSE LET parts == Split(r.content, ",")
         IN  [i \in 1..Len(parts) |-> Strip(parts[i])]

(***************************************************************************)
(* _load_templates and _initialize_vector_store.  A file is a name and the *)
(* number of chunks the text splitter cuts its content into.               *)
(***************************************************************************)
K == 5

FileSet == { [name |-> F_storage, nchunks |-> 3],
             [name |-> F_aks,     nchunks |-> 3],
             [name |-> F_main,    nchunks |-> 1],
             [name |-> F_notes,   nchunks |-> 1] }

LoadTemplates(fs) ==
    { [source |-> f.name, type |-> Replace(f.name, TfExt), nchunks |-> f.nchunks] :
        f \in {g \in fs : EndsWith(g.name, TfExt)} }

\* split_documents: every chunk inherits the metadata of its document
SplitDocuments(docs) ==
    UNION { { [source |-> d.source, type |-> d.type, n |-> i] : i \in 1..d.nchunks } :
            d \in docs }

BuildIndex(fs) == SplitDocuments(LoadTemplates(fs))

Range(f) == { f[i] : i \in DOMAIN f }

Min(a, b) == IF a < b THEN a ELSE b

\* variant: the metadata filter is not applied
SearchUnfiltered(store, types) ==
    { S \in SUBSET store : Cardinality(S) = Min(K, Cardinality(store)) }

\* the retriever: the k=5 chunks most similar to the query among those whose
\* type is in relevant_types; the similarity order is the embedding model's,
\* so any k of the matching chunks can be the answer
Search(store, types) ==
    LET matching == { c \in store : c.type \in Range(types) }
    IN  { S \in SUBSET matching : Cardinality(S) = Min(K, Cardinality(matching)) }

(***************************************************************************)
(* The replies of the external services.  ok: the call returned; content:  *)
(* the text returned (str(e) when it raised); kind: the class of the       *)
(* exception, a ValueError (or a subclass of it) or any other Exception;   *)
(* answer: whether the chain's response has the "answer" key.              *)
(***************************************************************************)
Returned(text) == [ok |-> TRUE, content |-> text, kind |-> "", answer |-> TRUE]

Failure(k) == [ok |-> FALSE, content |-> Timeout, kind |-> k, answer |-> FALSE]

NoReply == [ok |-> TRUE, content |-> Empty, kind |-> "", answer |-> FALSE]

NL == <<"\n">>

ValidatorReplies ==
    { Returned(P_valid \o B_true \o NL \o P_reason \o B_ok),
      Returned(P_valid \o B_false \o NL \o P_reason \o B_nope),
      Returned(P_reason \o B_nope),
      Failure("Exception") }

ClassifierReplies ==
    { Returned(Empty), Returned(L_storage), Returned(C_storage_aks),
      Returned(C_foo_storage), Returned(C_main), Returned(L_foo),
      Failure("Exception") }

RetrieverReplies == { Returned(Empty), Failure("ValueError"), Failure("Exception") }

SynthesizerReplies ==
    { Returned(Answer), [Returned(Empty) EXCEPT !.answer = FALSE],
      Failure("ValueError"), Failure("Exception") }

Queries == { Q_vm, Q_pasta }

(***************************************************************************)
(* generate_terraform.  What it returns or raises is a record: kind is     *)
(* "return", "ValueError" or "Exception", msg the fixed part of the text   *)
(* and arg the interpolated part.                                          *)
(***************************************************************************)
NoCalls == [validator |-> 0, classifier |-> 0, retriever |-> 0, synthesizer |-> 0]

NoResult == [kind |-> "none", msg |-> "", arg |-> Empty]

Terminal == {"Done", "Rejected", "Failed"}

\* the two except clauses of generate_terraform applied to an exception of
\* class k with text detail raised inside the try block
Reraise(k, m, detail) ==
    IF k = "ValueError"
    THEN [kind |-> "ValueError", msg |-> m, arg |-> detail]
    ELSE [kind |-> "Exception",
          msg |-> "Failed to generate Terraform configuration: ", arg |-> detail]

\* variant: the validator's verdict is not checked
ValidateWithoutCheck(r) ==
    /\ pc = "Validating"
    /\ LET v == ValidateQuery(r)
       IN  /\ is_valid' = v.is_valid
           /\ reason' = v.reason
           /\ pc' = "Classifying"
           /\ raised' = raised
    /\ reply' = r
    /\ calls' = [calls EXCEPT !.validator = @ + 1]
    /\ UNCHANGED <<messages, prompt, relevant_types, context, served,
                   vector_store, ctorVars>>

\* lines 146-148: the validator is called with reply r
ValidateWith(r) ==
    /\ pc = "Validating"
    /\ LET v == ValidateQuery(r)
       IN  /\ is_valid' = v.is_valid
           /\ reason' = v.reason
           /\ IF ~v.is_valid
              THEN /\ pc' = "Rejected"
                   /\ raised' = Reraise("ValueError", "Query is out of scope: ", v.reason)
              ELSE /\ pc' = "Classifying"
                   /\ raised' = raised
    /\ reply' = r
    /\ calls' = [calls EXCEPT !.validator = @ + 1]
    /\ UNCHANGED <<messages, prompt, relevant_types, context, served,
                   vector_store, ctorVars>>

Validate == \E r \in ValidatorReplies : ValidateWith(r)

\* line 151
Classify ==
    /\ pc = "Classifying"
    /\ \E r \in ClassifierReplies :
          /\ reply' = r
          /\ relevant_types' = GetRelevantTemplates(r)
    /\ pc' = "Retrieving"
    /\ calls' = [calls EXCEPT !.classifier = @ + 1]
    /\ UNCHANGED <<messages, prompt, is_valid, reason, context, raised, served,
                   vector_store, ctorVars>>

\* lines 154-160 and the retriever half of retrieval_chain.invoke (189-191)
Retrieve ==
    /\ pc = "Retrieving"
    /\ \E r \in RetrieverReplies :
          /\ reply' = r
          /\ IF r.ok
             THEN /\ context' \in Search(vector_store, relevant_types)
                  /\ pc' = "Synthesizing"
                  /\ raised' = raised
             ELSE /\ context' = context
                  /\ pc' = "Failed"
                  /\ raised' = Reraise(r.kind, "", r.content)
    /\ calls' = [calls EXCEPT !.retriever = @ + 1]
    /\ UNCHANGED <<messages, prompt, is_valid, reason, relevant_types, served,
                   vector_store, ctorVars>>

\* variant: a failed model call is issued again
SynthesizeWithRetry ==
    /\ pc = "Synthesizing"
    /\ calls.synthesizer < 2
    /\ \E r \in SynthesizerReplies :
          /\ reply' = r
          /\ IF ~r.ok
             THEN /\ pc' = IF calls.synthesizer = 0 THEN "Synthesizing" ELSE "Failed"
                  /\ raised' = IF calls.synthesizer = 0 THEN raised
                               ELSE Reraise(r.kind, "", r.content)
             ELSE IF ~r.answer
             THEN /\ pc' = "Failed"
                  /\ raised' = Reraise("ValueError", "No response generated from the model", Empty)
             ELSE /\ pc' = "Done"
                  /\ raised' = [kind |-> "return", msg |-> "", arg |-> r.content]
    /\ calls' = [calls EXCEPT !.synthesizer = @ + 1]
    /\ UNCHANGED <<messages, prompt, is_valid, reason, relevant_types, context,
                   served, vector_store, ctorVars>>

\* the document-chain half of retrieval_chain.invoke and lines 193-203
Synthesize ==
    /\ pc = "Synthesizing"
    /\ \E r \in SynthesizerReplies :
          /\ reply' = r
          /\ IF ~r.ok
             THEN /\ pc' = "Failed"
                  /\ raised' = Reraise(r.kind, "", r.content)
             ELSE IF ~r.answer
             THEN /\ pc' = "Failed"
                  /\ raised' = Reraise("ValueError", "No response generated from the model", Empty)
             ELSE /\ pc' = "Done"
                  /\ raised' = [kind |-> "return", msg |-> "", arg |-> r.content]
    /\ calls' = [calls EXCEPT !.synthesizer = @ + 1]
    /\ UNCHANGED <<messages, prompt, is_valid, reason, relevant_types, context,
                   served, vector_store, ctorVars>>

(***************************************************************************)
(* azure_terraform_chat: one run of the script per submitted query.        *)
(***************************************************************************)
Message(role, head, text) == [role |-> role, head |-> head, msg |-> text.msg, arg |-> text.arg]

\* lines 76-85: the prompt is appended to the log and the pipeline is entered
Submit ==
    /\ pc = "Idle"
    /\ ipc = "ready"
    /\ served < MaxQueries
    /\ \E q \in Queries :
          /\ prompt' = q
          /\ messages' = Append(messages, Message("user", "", [msg |-> "", arg |-> q]))
    /\ pc' = "Validating"
    /\ served' = served + 1
    /\ calls' = NoCalls
    /\ UNCHANGED <<reply, is_valid, reason, relevant_types, context, raised,
                   vector_store, ctorVars>>

\* lines 61-65: the agent is constructed anew on every run of the script; when
\* that fails the run stops before the chat input is read
AgentInitFails ==
    /\ pc = "Idle"
    /\ ipc = "ready"
    /\ served < MaxQueries
    /\ served' = served + 1
    /\ UNCHANGED <<messages, pc, prompt, reply, is_valid, reason, relevant_types,
                   context, raised, calls, vector_store, ctorVars>>

\* variant: the generic handler records its error in the log as well
RenderedAlways(res) ==
    IF res.kind = "return"
    THEN <<Message("assistant", "Generated Terraform Configuration:", res)>>
    ELSE IF res.kind = "ValueError"
    THEN <<Message("assistant", "warning", res)>>
    ELSE <<Message("assistant", "error", res)>>

\* what the three branches of lines 83-129 append to the log
Rendered(res) ==
    IF res.kind = "return"
    THEN <<Message("assistant", "Generated Terraform Configuration:", res)>>
    ELSE IF res.kind = "ValueError"
    THEN <<Message("assistant", "warning", res)>>
    ELSE << >>

\* lines 86-129: the result of generate_terraform is rendered, the run ends
Render ==
    /\ pc \in Terminal
    /\ messages' = messages \o Rendered(raised)
    /\ pc' = "Idle"
    /\ prompt' = Empty
    /\ reply' = NoReply
    /\ is_valid' = FALSE
    /\ reason' = Empty
    /\ relevant_types' = << >>
    /\ context' = {}
    /\ raised' = NoResult
    /\ calls' = NoCalls
    /\ UNCHANGED <<served, vector_store, ctorVars>>

(***************************************************************************)
(* The session: the engine has been constructed over one of the corpora.   *)
(***************************************************************************)
Corpora == { FileSet, {} }

NoNet == [embed |-> 0, index |-> 0, chat |-> 0]

IdlePipe ==
    /\ messages = << >>
    /\ pc = "Idle"
    /\ prompt = Empty
    /\ reply = NoReply
    /\ is_valid = FALSE
    /\ reason = Empty
    /\ relevant_types = << >>
    /\ context = {}
    /\ raised = NoResult
    /\ calls = NoCalls
    /\ served = 0

Init ==
    /\ IdlePipe
    /\ files \in Corpora
    /\ vector_store = BuildIndex(files)
    /\ ipc = "ready"
    /\ entry = "agent"
    /\ api_key = TRUE
    /\ dir_exists = TRUE
    /\ net = [embed |-> 1, index |-> 1, chat |-> 0]
    /\ ierr = "none"

Next ==
    \/ Submit
    \/ AgentInitFails
    \/ Validate
    \/ Classify
    \/ Retrieve
    \/ Synthesize
    \/ Render

Spec == Init /\ [][Next]_vars

(***************************************************************************)
(* Construction: AzureTerraformAgent.__init__ and                          *)
(* TerraformRAGEngine.__init__, one action per statement that can raise.   *)
(***************************************************************************)
CtorFails(e) ==
    /\ ipc' = "failed"
    /\ ierr' = e

\* azure_terraform_agent.py lines 24-34
AgentInit ==
    /\ ipc = "agent"
    /\ IF ~api_key THEN CtorFails("ValueError")
       ELSE IF ~dir_exists THEN CtorFails("FileNotFoundError")
       ELSE ipc' = "engine" /\ ierr' = ierr
    /\ UNCHANGED <<pipeVars, vector_store, entry, api_key, dir_exists, files, net>>

\* rag_engine.py lines 19-21
EngineKeyCheck ==
    /\ ipc = "engine"
    /\ IF ~api_key THEN CtorFails("ValueError")
       ELSE ipc' = "smoke" /\ ierr' = ierr
    /\ UNCHANGED <<pipeVars, vector_store, entry, api_key, dir_exists, files, net>>

\* rag_engine.py lines 23-30: embed_query("test") returns a vector, returns
\* nothing, or raises
SmokeTest ==
    /\ ipc = "smoke"
    /\ net' = [net EXCEPT !.embed = @ + 1]
    /\ \E outcome \in {"vector", "empty", "raises"} :
          IF outcome = "vector" THEN ipc' = "llm" /\ ierr' = ierr
          ELSE CtorFails("ValueError")
    /\ UNCHANGED <<pipeVars, vector_store, entry, api_key, dir_exists, files>>

\* rag_engine.py lines 38-43: constructing the chat client sends nothing
MakeLLM ==
    /\ ipc = "llm"
    /\ \E outcome \in {"client", "raises"} :
          IF outcome = "client" THEN ipc' = "load" /\ ierr' = ierr
          ELSE CtorFails("ValueError")
    /\ UNCHANGED <<pipeVars, vector_store, entry, api_key, dir_exists, files, net>>

\* variant: a missing directory is read as an empty one
LoadTemplatesStepLenient ==
    /\ ipc = "load"
    /\ ipc' = "index"
    /\ ierr' = ierr
    /\ UNCHANGED <<pipeVars, vector_store, entry, api_key, dir_exists, files, net>>

\* rag_engine.py lines 94-109 and 113: os.listdir raises on a missing directory
LoadTemplatesStep ==
    /\ ipc = "load"
    /\ IF ~dir_exists THEN CtorFails("FileNotFoundError")
       ELSE ipc' = "index" /\ ierr' = ierr
    /\ UNCHANGED <<pipeVars, vector_store, entry, api_key, dir_exists, files, net>>

\* rag_engine.py lines 114-118: the chunks are embedded and stored
InitializeVectorStore ==
    /\ ipc = "index"
    /\ net' = [net EXCEPT !.index = @ + 1]
    /\ \E outcome \in {"built", "raises"} :
          IF outcome = "built"
          THEN /\ vector_store' = BuildIndex(files)
               /\ ipc' = "ready"
               /\ ierr' = ierr
          ELSE /\ vector_store' = vector_store
               /\ CtorFails("Exception")
    /\ UNCHANGED <<pipeVars, entry, api_key, dir_exists, files>>

InitEngine ==
    /\ IdlePipe
    /\ entry \in {"agent", "engine"}
    /\ ipc = entry
    /\ api_key \in BOOLEAN
    /\ dir_exists \in BOOLEAN
    /\ files \in IF dir_exists THEN SUBSET FileSet ELSE {{}}
    /\ vector_store = {}
    /\ net = NoNet
    /\ ierr = "none"

NextEngine ==
    \/ AgentInit
    \/ EngineKeyCheck
    \/ SmokeTest
    \/ MakeLLM
    \/ LoadTemplatesStep
    \/ InitializeVectorStore

SpecEngine == InitEngine /\ [][NextEngine]_vars

(***************************************************************************)
(* The validator alone, over every reply of at most MaxLines lines built   *)
(* from the line fragments below.                                          *)
(***************************************************************************)
LinePrefixes == { P_valid, P_Valid, P_svalid, P_reason, P_note }

LineBodies == { B_true, B_false, B_TRUE, B_nope, Empty }

ReplyLines == { p \o b : p \in LinePrefixes, b \in LineBodies }

ParseReplies ==
    { Returned(Join(ls, "\n")) :
        ls \in UNION { [1..n -> ReplyLines] : n \in 1..MaxLines } }

InitParse ==
    /\ messages = <<Message("user", "", [msg |-> "", arg |-> Q_vm])>>
    /\ pc = "Validating"
    /\ prompt = Q_vm
    /\ reply = NoReply
    /\ is_valid = FALSE
    /\ reason = Empty
    /\ relevant_types = << >>
    /\ context = {}
    /\ raised = NoResult
    /\ calls = NoCalls
    /\ served = 1
    /\ files = FileSet
    /\ vector_store = BuildIndex(files)
    /\ ipc = "ready"
    /\ entry = "agent"
    /\ api_key = TRUE
    /\ dir_exists = TRUE
    /\ net = [embed |-> 1, index |-> 1, chat |-> 0]
    /\ ierr = "none"

NextParse == \E r \in ParseReplies : ValidateWith(r)

SpecParse == InitParse /\ [][NextParse]_vars

(***************************************************************************)
(* The session with the scheduling of a single thread: a call that was     *)
(* issued returns or raises, and the statement after it runs.              *)
(***************************************************************************)
FairSpec == Spec /\ WF_vars(Validate \/ Classify \/ Retrieve \/ Synthesize)

(***************************************************************************)
(* Properties.                                                             *)
(***************************************************************************)
KnownLabels == { L_vm, L_aks, L_storage, L_vnet, L_lb }

R_nope == <<"n","o","p","e">>

\* the validator has been called and its reply is the last one received
Validated == calls.validator = 1 /\ calls.classifier = 0

\* the lines of the last reply, as _validate_query sees them
Lines == ResponseLines(reply.content)

ValidIdx(L) == { i \in 1..Len(L) : StartsWith(L[i], P_valid) }

ReasonIdx(L) == { i \in 1..Len(L) : StartsWith(L[i], P_reason) }

First(S) == CHOOSE i \in S : \A j \in S : i <= j

Last(S) == CHOOSE i \in S : \A j \in S : i >= j

ReasonText(line) == Strip(SubSeq(line, Len(P_reason) + 1, Len(line)))

\* C1: when the validator returns is_in_scope = false, generate_terraform
\* raises the out-of-scope error carrying the validator's reason, and the
\* classifier, the retriever and the synthesizer are not invoked.
C1_ShortCircuit ==
    (calls.validator = 1 /\ ~is_valid) =>
        /\ pc = "Rejected"
        /\ raised = [kind |-> "ValueError", msg |-> "Query is out of scope: ",
                     arg |-> reason]
        /\ calls.classifier = 0
        /\ calls.retriever = 0
        /\ calls.synthesizer = 0

C1_Witness ==
    /\ pc = "Rejected"
    /\ reply.ok
    /\ ~is_valid
    /\ reason = R_nope
    /\ calls = [NoCalls EXCEPT !.validator = 1]

\* C2 as stated: a reply without a line beginning with `valid:` yields
\* exactly (false, "Invalid query format"), a `reason:` line notwithstanding.
C2_Original ==
    (Validated /\ reply.ok) =>
        \A L \in {Lines} :
            ValidIdx(L) = {} => (is_valid = FALSE /\ reason = DefaultReason)

\* C2 amended: a reply without a line beginning with `valid:` yields false;
\* the reason is "Invalid query format" when the reply has no `reason:` line
\* either, and the text of a `reason:` line of the reply otherwise.
C2_FailClosedDefault ==
    (Validated /\ reply.ok) =>
        \A L \in {Lines} :
            ValidIdx(L) = {} =>
                /\ is_valid = FALSE
                /\ pc = "Rejected"
                /\ (ReasonIdx(L) = {} => reason = DefaultReason)
                /\ (ReasonIdx(L) # {} =>
                        \E i \in ReasonIdx(L) : reason = ReasonText(L[i]))

C2_Witness ==
    /\ Validated
    /\ reply.content = P_reason \o B_nope
    /\ is_valid = FALSE
    /\ reason = R_nope

C3_ErrorKinds ==
    (pc \in Terminal) =>
        /\ (raised.kind = "ValueError") <=> (pc = "Rejected")
        /\ (pc = "Failed") => (raised.kind = "Exception")

\* C4: when the validator's model call fails, _validate_query returns
\* (false, "Error validating query: <detail>"), generate_terraform ends in
\* Rejected, and the query never reaches the classifier, the retriever or
\* the synthesizer.
C4_FailClosed ==
    /\ []((Validated /\ ~reply.ok) =>
            /\ is_valid = FALSE
            /\ reason = ErrPrefix \o reply.content
            /\ pc = "Rejected"
            /\ raised.kind = "ValueError"
            /\ calls.retriever = 0
            /\ calls.synthesizer = 0)
    /\ [][(pc = "Rejected") => (pc' = "Idle" /\ calls' = NoCalls)]_vars

C4_Witness ==
    /\ pc = "Rejected"
    /\ Validated
    /\ ~reply.ok
    /\ reason = ErrPrefix \o Timeout

\* t is p without its leading and trailing whitespace
IsTrimOf(t, p) ==
    \E a \in 0..Len(p) : \E b \in a..Len(p) :
        /\ t = SubSeq(p, a + 1, b)
        /\ \A i \in (1..a) \cup ((b + 1)..Len(p)) : p[i] \in Whitespace
        /\ (t # Empty => (t[1] \notin Whitespace /\ t[Len(t)] \notin Whitespace))

\* the position of the k-th comma of c; 0 before the first, Len(c)+1 after the last
CommaAt(c, k) ==
    LET commas == { i \in 1..Len(c) : c[i] = "," }
    IN  IF k = 0 THEN 0
        ELSE IF k > Cardinality(commas) THEN Len(c) + 1
        ELSE CHOOSE i \in commas : Cardinality({ j \in commas : j <= i }) = k

\* C5: on an empty model output or a failed model call the classifier
\* returns exactly (virtual_machine, storage) and the pipeline goes on from
\* Classifying to Retrieving; otherwise it returns the comma-separated
\* tokens of the output, each trimmed of surrounding whitespace.
C5_ClassifierFallback ==
    /\ []((pc = "Retrieving") =>
            IF ~reply.ok \/ reply.content = Empty
            THEN relevant_types = <<L_vm, L_storage>>
            ELSE \A c \in {reply.content} :
                    /\ Len(relevant_types) =
                           Cardinality({ i \in 1..Len(c) : c[i] = "," }) + 1
                    /\ \A k \in 1..Len(relevant_types) :
                           IsTrimOf(relevant_types[k],
                                    SubSeq(c, CommaAt(c, k - 1) + 1, CommaAt(c, k) - 1)))
    /\ [][(pc = "Classifying" /\ pc' # pc) =>
             (pc' = "Retrieving" /\ raised' = NoResult)]_vars

C5_Witness ==
    /\ pc = "Retrieving"
    /\ ~reply.ok
    /\ relevant_types = <<L_vm, L_storage>>

\* C6 as stated: constructing the engine on a missing template directory
\* raises a configuration error before any network call is issued.
C6_Original ==
    (entry = "engine" /\ ~dir_exists /\ ipc = "failed") =>
        /\ ierr \in {"ValueError", "FileNotFoundError"}
        /\ net = NoNet

\* C6 amended: constructing the engine on a missing template directory never
\* succeeds and issues no index-build and no chat-model call, but the
\* directory error is raised only after the embedding smoke test has been
\* issued; only the construction through AzureTerraformAgent, which checks
\* the directory first, fails before any network call.
C6_DirectoryNotFound ==
    (~dir_exists) =>
        /\ ipc # "ready"
        /\ ipc # "index"
        /\ net.index = 0
        /\ net.chat = 0
        /\ (ipc = "failed" => ierr \in {"ValueError", "FileNotFoundError"})
        /\ (entry = "engine" /\ ierr = "FileNotFoundError" => net.embed = 1)
        /\ (entry = "agent" => net = NoNet)

C6_Witness ==
    /\ entry = "engine"
    /\ ~dir_exists
    /\ ipc = "failed"
    /\ ierr = "FileNotFoundError"
    /\ net = [embed |-> 1, index |-> 0, chat |-> 0]

Rank(p) ==
    CASE p = "Idle" -> 0
      [] p = "Validating" -> 1
      [] p = "Classifying" -> 2
      [] p = "Retrieving" -> 3
      [] p = "Synthesizing" -> 4
      [] p \in Terminal -> 5

\* the components invoked so far, given the position
CallsAt(p) ==
    [validator   |-> IF Rank(p) >= 2 THEN 1 ELSE 0,
     classifier  |-> IF Rank(p) >= 3 /\ p # "Rejected" THEN 1 ELSE 0,
     retriever   |-> IF Rank(p) >= 4 /\ p # "Rejected" THEN 1 ELSE 0,
     synthesizer |-> IF p = "Done" THEN 1 ELSE 0]

\* C7: generate_terraform moves only forward through Idle, Validating,
\* Classifying, Retrieving, Synthesizing; each component is invoked at most
\* once per query and in that order, a failed call is never issued again;
\* and every query ends in Done, Rejected or Failed.
C7_LinearSinglePass ==
    /\ [][(pc' # pc) =>
             \/ Rank(pc') > Rank(pc)
             \/ (pc \in Terminal /\ pc' = "Idle")]_vars
    /\ [](\A c \in DOMAIN calls : calls[c] <= 1)
    /\ [](pc # "Failed" => calls = CallsAt(pc))
    /\ [](pc = "Failed" =>
            /\ calls.validator = 1 /\ calls.classifier = 1 /\ calls.retriever = 1
            /\ raised.kind \in {"ValueError", "Exception"})
    /\ [][\A c \in DOMAIN calls : calls'[c] >= calls[c] \/ pc' = "Idle"]_vars
    /\ (pc = "Validating") ~> (pc \in Terminal)

C7_Witness ==
    /\ pc = "Done"
    /\ calls = [validator |-> 1, classifier |-> 1, retriever |-> 1, synthesizer |-> 1]
    /\ raised.kind = "return"

\* C9 as stated: every chunk handed to synthesis has a label that is in the
\* classifier output and is one of the five known labels.
C9_Original ==
    (pc = "Synthesizing") =>
        \A c \in context : c.type \in Range(relevant_types) /\ c.type \in KnownLabels

\* C9 amended: every chunk handed to synthesis has a label that is in the
\* classifier output and is the type label of a document of the corpus (its
\* file name with `.tf` removed); so a token outside the five labels
\* retrieves nothing unless the corpus holds a document of that label.  Such a token never moves the query to Failed:
\* the pipeline goes on to Synthesizing, also with zero chunks.
C9_UnknownTokens ==
    /\ []((pc = "Synthesizing") =>
            /\ context \subseteq vector_store
            /\ \A c \in context :
                  /\ c.type \in Range(relevant_types)
                  /\ \E d \in LoadTemplates(files) : d.type = c.type
            /\ \A t \in Range(relevant_types) :
                  (\A d \in LoadTemplates(files) : d.type # t) =>
                      (\A c \in context : c.type # t))
    /\ [][(pc = "Retrieving" /\ pc' # pc /\ reply'.ok) => pc' = "Synthesizing"]_vars

C9_Witness ==
    /\ pc = "Synthesizing"
    /\ files = FileSet
    /\ relevant_types = <<L_foo>>
    /\ context = {}

Roles(log) == [i \in 1..Len(log) |-> log[i].role]

\* C10: the log is append-only; a submitted query appends exactly one user
\* message before the pipeline is invoked; the end of the query appends
\* exactly one assistant message when it is Done (the configuration) or
\* when a ValueError was raised (the warning), and none otherwise.
C10_LogShape ==
    [][/\ Len(messages') >= Len(messages)
       /\ SubSeq(messages', 1, Len(messages)) = messages
       /\ (pc = "Idle" /\ pc' # "Idle") =>
             /\ messages' = Append(messages,
                    [role |-> "user", head |-> "", msg |-> "", arg |-> prompt'])
             /\ calls' = NoCalls
       /\ (pc \in Terminal /\ pc' = "Idle") =>
             IF pc = "Done"
             THEN messages' = Append(messages,
                    [role |-> "assistant", head |-> "Generated Terraform Configuration:",
                     msg |-> "", arg |-> raised.arg])
             ELSE IF raised.kind = "ValueError"
             THEN messages' = Append(messages,
                    [role |-> "assistant", head |-> "warning",
                     msg |-> raised.msg, arg |-> raised.arg])
             ELSE messages' = messages
       /\ (pc' = pc \/ pc \notin Terminal \cup {"Idle"}) => messages' = messages
      ]_vars

C10_Witness ==
    /\ pc = "Idle"
    /\ Roles(messages) = <<"user", "user", "assistant">>
    /\ messages[3].head = "warning"

====
